---- MODULE Spec2Model ----
(***************************************************************************)
(* Model of 01-Introduction/ufo.py: the load / validate / filter pipeline  *)
(* of main over the tab-separated sighting log.                            *)
(*                                                                         *)
(* A Python str is a sequence of one-character strings.  A Python list is  *)
(* a sequence; a Python index i addresses element i + 1 of it, and the     *)
(* index lists the validators return hold the Python (0-based) indices.    *)
(* Every cell of the table carries, besides its value `val`, the history   *)
(* field `line`: the 1-based number of the input line the value was read   *)
(* from.  The program never reads `line`; it only travels with the value.  *)
(***************************************************************************)
EXTENDS Integers, Sequences, FiniteSets, TLC

VARIABLES
    pc,                    \* the statement of main that runs next
    lines,                 \* f.readlines(): the raw lines of the input file
    data,                  \* main's table: column name -> list of cells
    bad_date_indices,      \* main's local of that name
    bad_location_indices,  \* main's local of that name
    log,                   \* the records handed to the logger, in order
    indices                \* the index list trim_indices is applied to on its own

vars == <<pc, lines, data, bad_date_indices, bad_location_indices, log, indices>>

-----------------------------------------------------------------------------
(* Bounds of the model.                                                    *)

\* the longest input file, in lines
MaxLines == 3

\* the longest index list handed to trim_indices when it is applied on its own
MaxIndices == 3

-----------------------------------------------------------------------------
(* Column names, ufo.py lines 21-27.                                       *)

column_names ==
    <<"date_occurred", "date_reported", "location", "short_description",
      "duration", "long_description">>

OCCURRED == "date_occurred"

REPORTED == "date_reported"

LOCATION == "location"

Columns == {column_names[i] : i \in 1..Len(column_names)}

-----------------------------------------------------------------------------
(* The Python built-ins the program calls, on sequences of characters.     *)

TAB == "\t"

COMMA == ","

NL == "\n"

\* the characters str.strip() removes (the ASCII ones)
Whitespace == {" ", "\t", "\n", "\r", "\f"}

Digits == <<"0", "1", "2", "3", "4", "5", "6", "7", "8", "9">>

Lowercase ==
    <<"a", "b", "c", "d", "e", "f", "g", "h", "i", "j", "k", "l", "m",
      "n", "o", "p", "q", "r", "s", "t", "u", "v", "w", "x", "y", "z">>

Uppercase ==
    <<"A", "B", "C", "D", "E", "F", "G", "H", "I", "J", "K", "L", "M",
      "N", "O", "P", "Q", "R", "S", "T", "U", "V", "W", "X", "Y", "Z">>

Min(a, b) == IF a <= b THEN a ELSE b

\* x in l, for a Python list l
in_list(x, l) == \E j \in 1..Len(l) : l[j] = x

\* s[:n]
prefix(s, n) == SubSeq(s, 1, Min(n, Len(s)))

\* s.split(sep) for a one-character sep: always at least one part
RECURSIVE split(_, _)
split(s, sep) ==
    IF \A j \in 1..Len(s) : s[j] # sep
    THEN <<s>>
    ELSE LET k == CHOOSE j \in 1..Len(s) :
                      s[j] = sep /\ \A h \in 1..(j - 1) : s[h] # sep
         IN  <<SubSeq(s, 1, k - 1)>> \o split(SubSeq(s, k + 1, Len(s)), sep)

\* s.strip()
strip(s) ==
    IF \A j \in 1..Len(s) : s[j] \in Whitespace
    THEN <<>>
    ELSE LET a == CHOOSE j \in 1..Len(s) :
                      s[j] \notin Whitespace
                      /\ \A h \in 1..(j - 1) : s[h] \in Whitespace
             b == CHOOSE j \in 1..Len(s) :
                      s[j] \notin Whitespace
                      /\ \A h \in (j + 1)..Len(s) : s[h] \in Whitespace
         IN  SubSeq(s, a, b)

\* s.upper()
upper(s) ==
    [j \in 1..Len(s) |->
        IF \E h \in 1..Len(Lowercase) : Lowercase[h] = s[j]
        THEN Uppercase[CHOOSE h \in 1..Len(Lowercase) : Lowercase[h] = s[j]]
        ELSE s[j]]

\* sep.join(parts)
RECURSIVE join(_, _)
join(sep, parts) ==
    IF Len(parts) = 0 THEN <<>>
    ELSE IF Len(parts) = 1 THEN parts[1]
    ELSE parts[1] \o sep \o join(sep, Tail(parts))

-----------------------------------------------------------------------------
(* datetime.strptime(row, '%Y%m%d'), called at ufo.py line 175.  CPython   *)
(* matches row against the regular expression                              *)
(*   (\d\d\d\d)(1[0-2]|0[1-9]|[1-9])(3[0-1]|[1-2]\d|0[1-9]|[1-9]| [1-9])   *)
(* from its start, raises ValueError when nothing matches or when the      *)
(* match does not end at the end of row, and then builds the date, which   *)
(* raises ValueError for year 0 and for a day the month does not have.     *)

IsDigit(c) == \E h \in 1..Len(Digits) : Digits[h] = c

DigitVal(c) == (CHOOSE h \in 1..Len(Digits) : Digits[h] = c) - 1

IsNonZeroDigit(c) == IsDigit(c) /\ c # "0"

\* the length the month group matches at position p with its two-character
\* alternatives (1[0-2], 0[1-9]), 0 when neither matches
month_len2(s, p) ==
    IF p + 1 <= Len(s)
       /\ \/ s[p] = "1" /\ s[p + 1] \in {"0", "1", "2"}
          \/ s[p] = "0" /\ IsNonZeroDigit(s[p + 1])
    THEN 2 ELSE 0

\* the same for its one-character alternative [1-9]
month_len1(s, p) == IF p <= Len(s) /\ IsNonZeroDigit(s[p]) THEN 1 ELSE 0

\* the length the day group matches at position p, 0 when it does not:
\* the alternatives are tried in the order written
day_len(s, p) ==
    IF p + 1 <= Len(s)
       /\ \/ s[p] = "3" /\ s[p + 1] \in {"0", "1"}
          \/ s[p] \in {"1", "2"} /\ IsDigit(s[p + 1])
          \/ s[p] = "0" /\ IsNonZeroDigit(s[p + 1])
    THEN 2
    ELSE IF p <= Len(s) /\ IsNonZeroDigit(s[p]) THEN 1
    ELSE IF p + 1 <= Len(s) /\ s[p] = " " /\ IsNonZeroDigit(s[p + 1]) THEN 2
    ELSE 0

\* the lengths of the month and day groups of the match, <<0, 0>> when the
\* expression does not match: the longer month is tried first, and the
\* shorter one when no day follows the longer one
date_groups(s) ==
    IF ~(Len(s) >= 4 /\ \A j \in 1..4 : IsDigit(s[j])) THEN <<0, 0>>
    ELSE IF month_len2(s, 5) = 2 /\ day_len(s, 7) > 0 THEN <<2, day_len(s, 7)>>
    ELSE IF month_len1(s, 5) = 1 /\ day_len(s, 6) > 0 THEN <<1, day_len(s, 6)>>
    ELSE <<0, 0>>

\* int() of a run of digits, a leading blank skipped
RECURSIVE to_int(_)
to_int(s) ==
    IF Len(s) = 0 THEN 0
    ELSE IF s[1] = " " THEN to_int(Tail(s))
    ELSE to_int(SubSeq(s, 1, Len(s) - 1)) * 10 + DigitVal(s[Len(s)])

is_leap(year) == year % 4 = 0 /\ (year % 100 # 0 \/ year % 400 = 0)

days_in_month(year, month) ==
    IF month = 2 THEN (IF is_leap(year) THEN 29 ELSE 28)
    ELSE IF month \in {4, 6, 9, 11} THEN 30
    ELSE 31

\* TRUE when strptime(row, DATE_FORMAT) returns, FALSE when it raises
strptime_ok(row) ==
    LET g     == date_groups(row)
        year  == to_int(SubSeq(row, 1, 4))
        month == to_int(SubSeq(row, 5, 4 + g[1]))
        day   == to_int(SubSeq(row, 5 + g[1], 4 + g[1] + g[2]))
    IN  /\ g # <<0, 0>>
        /\ 4 + g[1] + g[2] = Len(row)
        /\ year >= 1
        /\ day <= days_in_month(year, month)

-----------------------------------------------------------------------------
(* The program's functions.                                                *)

\* a record handed to the logger; n is the number the message is built
\* from, -1 for a message built from none
LogRecord(level, msg, n) == [level |-> level, msg |-> msg, n |-> n]

\* err_printer, ufo.py lines 219-222: three more error records
err_printer(e) ==
    <<LogRecord("ERROR", "type(e)", -1),
      LogRecord("ERROR", e, -1),
      LogRecord("ERROR", "None", -1)>>

\* fix_long_description without the filter of line 129: empty parts kept
fix_long_description_keep_empty(split_line) ==
    LET last_column == Len(column_names) - 1
        stragglers  == SubSeq(split_line, last_column + 1, Len(split_line))
        stripped    == [j \in 1..Len(stragglers) |-> strip(stragglers[j])]
        joined      == join(<<" ", " ">>, stripped)
    IN  SubSeq(split_line, 1, last_column) \o <<joined>>

\* fix_long_description, ufo.py lines 118-135
fix_long_description(split_line) ==
    LET last_column == Len(column_names) - 1
        stragglers  == SubSeq(split_line, last_column + 1, Len(split_line))
        stripped    == [j \in 1..Len(stragglers) |-> strip(stragglers[j])]
        kept        == SelectSeq(stripped, LAMBDA item : Len(item) > 0)
        joined      == join(<<" ", " ">>, kept)
    IN  SubSeq(split_line, 1, last_column) \o <<joined>>

\* the split_line the loop body of load_data works on, lines 102-104
split_columns(line) ==
    LET split_line == split(line, TAB)
    IN  IF Len(split_line) > Len(column_names)
        THEN fix_long_description(split_line)
        ELSE split_line

\* lines 106-109 on the table d for the line numbered k: one append per
\* column, in column order, until split_line[i] raises IndexError
append_line(d, split_line, k) ==
    [key \in Columns |->
        LET i == CHOOSE j \in 1..Len(column_names) : column_names[j] = key
        IN  IF i <= Len(split_line)
            THEN Append(d[key], [line |-> k, val |-> split_line[i]])
            ELSE d[key]]

\* the loop of load_data from the line numbered k on, lines 99-113; the
\* IndexError of a line with fewer than six parts is caught at line 111
\* and logged, and nothing is raised to the caller (raised is FALSE)
RECURSIVE load_lines(_, _, _, _)
load_lines(ls, k, d, line_num) ==
    IF k > Len(ls) THEN [data |-> d, log |-> <<>>, raised |-> FALSE]
    ELSE LET split_line == split_columns(ls[k])
         IN  IF Len(split_line) < Len(column_names)
             THEN [data |-> append_line(d, split_line, k),
                   log  |-> <<LogRecord("ERROR", "Found error on line number",
                                        line_num)>>
                            \o err_printer("IndexError"),
                   raised |-> FALSE]
             ELSE load_lines(ls, k + 1, append_line(d, split_line, k),
                             line_num + 1)

\* load_data without the except clause of line 111: the IndexError of a
\* short line goes up to main
load_data_reraise(ls) ==
    LET r == load_lines(ls, 1, [key \in Columns |-> <<>>], 0)
    IN  [r EXCEPT !.raised = Len(r.log) > 0]

\* load_data, ufo.py lines 90-115, on the lines read from the file
load_data(ls) == load_lines(ls, 1, [key \in Columns |-> <<>>], 0)

\* the list comprehension with the rows counted from 1
RECURSIVE keep_rows_from_one(_, _, _)
keep_rows_from_one(rows, idx, index) ==
    IF index >= Len(rows) THEN <<>>
    ELSE (IF in_list(index + 1, idx) THEN <<>> ELSE <<rows[index + 1]>>)
         \o keep_rows_from_one(rows, idx, index + 1)

\* the list comprehension of trim_indices, line 84, from Python index `index`
RECURSIVE keep_rows(_, _, _)
keep_rows(rows, idx, index) ==
    IF index >= Len(rows) THEN <<>>
    ELSE (IF in_list(index, idx) THEN <<>> ELSE <<rows[index + 1]>>)
         \o keep_rows(rows, idx, index + 1)

\* trim_indices, ufo.py lines 73-87
trim_indices(d, idx) == [key \in DOMAIN d |-> keep_rows(d[key], idx, 0)]

\* the loop of column_to_date from Python index i on, lines 171-178
RECURSIVE column_to_date_from(_, _)
column_to_date_from(col, i) ==
    IF i >= Len(col) THEN [transformed |-> <<>>, bad_indices |-> <<>>]
    ELSE LET row  == col[i + 1]
             rest == column_to_date_from(col, i + 1)
         IN  IF strptime_ok(row.val)
             THEN [transformed |->
                       <<[row EXCEPT !.val = prefix(row.val, 4)]>>
                       \o rest.transformed,
                   bad_indices |-> rest.bad_indices]
             ELSE [transformed |-> rest.transformed,
                   bad_indices |-> <<i>> \o rest.bad_indices]

\* column_to_date, ufo.py lines 161-179
column_to_date(col) == column_to_date_from(col, 0)

\* transform_dates, ufo.py lines 138-158
transform_dates(d) ==
    LET occurred == column_to_date(d[OCCURRED])
        reported == column_to_date(d[REPORTED])
    IN  [data |-> [d EXCEPT ![OCCURRED] = occurred.transformed,
                            ![REPORTED] = reported.transformed],
         bad_indices |-> occurred.bad_indices \o reported.bad_indices]

\* the list `states` of transform_locations, lines 196-199
states ==
    <<<<"A", "K">>, <<"A", "L">>, <<"A", "R">>, <<"A", "Z">>, <<"C", "A">>,
      <<"C", "O">>, <<"C", "T">>, <<"D", "E">>, <<"F", "L">>, <<"G", "A">>,
      <<"H", "I">>, <<"I", "A">>, <<"I", "D">>, <<"I", "L">>, <<"I", "N">>,
      <<"K", "S">>, <<"K", "Y">>, <<"L", "A">>, <<"M", "A">>, <<"M", "D">>,
      <<"M", "E">>, <<"M", "I">>, <<"M", "N">>, <<"M", "O">>, <<"M", "S">>,
      <<"M", "T">>, <<"N", "C">>, <<"N", "D">>, <<"N", "E">>, <<"N", "H">>,
      <<"N", "J">>, <<"N", "M">>, <<"N", "V">>, <<"N", "Y">>, <<"O", "H">>,
      <<"O", "K">>, <<"O", "R">>, <<"P", "A">>, <<"R", "I">>, <<"S", "C">>,
      <<"S", "D">>, <<"T", "N">>, <<"T", "X">>, <<"U", "T">>, <<"V", "A">>,
      <<"V", "T">>, <<"W", "A">>, <<"W", "I">>, <<"W", "V">>, <<"W", "Y">>>>

\* the test of lines 204-207 on one location string: is its index flagged?
location_flagged(row) ==
    LET parts == split(row, COMMA)
    IN  IF Len(parts) # 2 THEN TRUE
        ELSE ~in_list(strip(upper(parts[2])), states)

\* the value lines 209-214 store for one location string: the string
\* split[0] itself (shown as [str |-> ...]) or the dict of city and state
location_value(row) ==
    LET parts == split(row, COMMA)
    IN  IF Len(parts) = 1 THEN [str |-> parts[1]]
        ELSE [city |-> parts[1], state |-> parts[2]]

\* the loop of transform_locations from Python index i on, lines 201-214
RECURSIVE transform_locations_from(_, _)
transform_locations_from(locations, i) ==
    IF i >= Len(locations)
    THEN [transformed_locations |-> <<>>, bad_indices |-> <<>>]
    ELSE LET row  == locations[i + 1]
             rest == transform_locations_from(locations, i + 1)
         IN  [transformed_locations |->
                  <<[row EXCEPT !.val = location_value(row.val)]>>
                  \o rest.transformed_locations,
              bad_indices |->
                  (IF location_flagged(row.val) THEN <<i>> ELSE <<>>)
                  \o rest.bad_indices]

\* transform_locations, ufo.py lines 182-216
transform_locations(d) ==
    LET r == transform_locations_from(d[LOCATION], 0)
    IN  [data |-> [d EXCEPT ![LOCATION] = r.transformed_locations],
         bad_indices |-> r.bad_indices]

-----------------------------------------------------------------------------
(* The inputs: field values, the lines built from them, the files.         *)

\* '19870604'
d19870604 ==
    <<"1", "9", "8", "7", "0", "6", "0", "4">>

\* '19870610'
d19870610 ==
    <<"1", "9", "8", "7", "0", "6", "1", "0">>

\* '1987-06-04'
d1987_06_04 ==
    <<"1", "9", "8", "7", "-", "0", "6", "-", "0", "4">>

\* '19950102'
d19950102 ==
    <<"1", "9", "9", "5", "0", "1", "0", "2">>

\* '00000101'
d00000101 ==
    <<"0", "0", "0", "0", "0", "1", "0", "1">>

\* '19870230'
d19870230 ==
    <<"1", "9", "8", "7", "0", "2", "3", "0">>

\* '20000229'
d20000229 ==
    <<"2", "0", "0", "0", "0", "2", "2", "9">>

\* '19000229'
d19000229 ==
    <<"1", "9", "0", "0", "0", "2", "2", "9">>

\* '19951231'
d19951231 ==
    <<"1", "9", "9", "5", "1", "2", "3", "1">>

\* '1996101'
d1996101 ==
    <<"1", "9", "9", "6", "1", "0", "1">>

\* '2001911'
d2001911 ==
    <<"2", "0", "0", "1", "9", "1", "1">>

\* '20010912'
d20010912 ==
    <<"2", "0", "0", "1", "0", "9", "1", "2">>

\* 'Ithaca, NY'
IthacaNY ==
    <<"I", "t", "h", "a", "c", "a", ",", " ", "N", "Y">>

\* 'Austin, tx'
AustinTx ==
    <<"A", "u", "s", "t", "i", "n", ",", " ", "t", "x">>

\* 'Ithaca, Ontario'
IthacaOntario ==
    <<"I", "t", "h", "a", "c", "a", ",", " ", "O", "n", "t", "a", "r",
      "i", "o">>

\* 'Reno, NV'
RenoNV ==
    <<"R", "e", "n", "o", ",", " ", "N", "V">>

\* 'Ithaca'
Ithaca ==
    <<"I", "t", "h", "a", "c", "a">>

\* 'Paris, TX, USA'
ParisTXUSA ==
    <<"P", "a", "r", "i", "s", ",", " ", "T", "X", ",", " ", "U", "S",
      "A">>

\* 'Salem, or '
SalemOr ==
    <<"S", "a", "l", "e", "m", ",", " ", "o", "r", " ">>

\* 'light'
Light ==
    <<"l", "i", "g", "h", "t">>

\* '5 min'
FiveMin ==
    <<"5", " ", "m", "i", "n">>

\* 'bright'
Bright ==
    <<"b", "r", "i", "g", "h", "t">>

\* 'lights in the sky'
LightsInTheSky ==
    <<"l", "i", "g", "h", "t", "s", " ", "i", "n", " ", "t", "h", "e", " ",
      "s", "k", "y">>

\* 'very bright'
VeryBright ==
    <<"v", "e", "r", "y", " ", "b", "r", "i", "g", "h", "t">>

\* 'moving slowly'
MovingSlowly ==
    <<"m", "o", "v", "i", "n", "g", " ", "s", "l", "o", "w", "l", "y">>

\* a raw line of the file: its parts separated by tabs, then the newline
RawLine(parts) == join(<<TAB>>, parts) \o <<NL>>

\* both dates parse, the state is recognised
LineGood == RawLine(<<d19870604, d19870610, IthacaNY, Light, FiveMin, Bright>>)

\* date_occurred does not parse; the state is in lower case
LineBadOccurred ==
    RawLine(<<d1987_06_04, d19950102, AustinTx, Light, FiveMin, Bright>>)

\* date_reported does not parse (1900 is no leap year)
LineBadReported ==
    RawLine(<<d20000229, d19000229, RenoNV, Light, FiveMin, Bright>>)

\* neither date parses (year 0, 30 February); the state is not recognised
LineBadBoth ==
    RawLine(<<d00000101, d19870230, IthacaOntario, Light, FiveMin, Bright>>)

\* a location of one part; a date of seven characters that parses
LineOnePart ==
    RawLine(<<d19951231, d1996101, Ithaca, Light, FiveMin, Bright>>)

\* a location of three parts; tabs inside the long description
LineThreeParts ==
    RawLine(<<d2001911, d20010912, ParisTXUSA, Light, FiveMin,
              LightsInTheSky, VeryBright, MovingSlowly>>)

\* tabs, blanks and empty parts inside the long description
LineTabs ==
    RawLine(<<d19950102, d19951231, SalemOr, Light, FiveMin,
              <<"a", " ">>, <<>>, <<" ">>, <<" ", "b">>>>)

\* a line of three parts
LineShort == RawLine(<<d19870604, d19870610, IthacaNY>>)

\* an empty line: one empty part after the newline is split off
LineEmpty == RawLine(<<>>)

SampleLines ==
    {LineGood, LineBadOccurred, LineBadReported, LineBadBoth, LineOnePart,
     LineThreeParts, LineTabs, LineShort, LineEmpty}

\* the lines the table is built from when trim_indices is applied on its own
TrimLines == {LineGood, LineOnePart, LineTabs}

FilesOver(S) == UNION {[1..n -> S] : n \in 0..MaxLines}

\* the index lists over the rows 0..n-1, unsorted and with repeats
IndexLists(n) == UNION {[1..m -> 0..(n - 1)] : m \in 0..MaxIndices}

EmptyTable == [key \in Columns |-> <<>>]

-----------------------------------------------------------------------------
(* main, ufo.py lines 32-55, one action per call it makes.                 *)

Init ==
    /\ pc = "load_data"
    /\ lines \in FilesOver(SampleLines)
    /\ data = EmptyTable
    /\ bad_date_indices = <<>>
    /\ bad_location_indices = <<>>
    /\ log = <<>>
    /\ indices = <<>>

\* line 33: an exception load_data raised would end main
LoadData ==
    /\ pc = "load_data"
    /\ LET r == load_data(lines)
       IN  /\ data' = r.data
           /\ log' = log \o r.log
           /\ pc' = IF r.raised THEN "raised" ELSE "transform_dates"
    /\ UNCHANGED <<lines, bad_date_indices, bad_location_indices, indices>>

\* lines 36-37
TransformDates ==
    /\ pc = "transform_dates"
    /\ LET r == transform_dates(data)
       IN  /\ data' = r.data
           /\ bad_date_indices' = r.bad_indices
    /\ log' = Append(log, LogRecord("INFO", "transforming dates", -1))
    /\ pc' = "trim_dates"
    /\ UNCHANGED <<lines, bad_location_indices, indices>>

\* lines 38-40
TrimDates ==
    /\ pc = "trim_dates"
    /\ log' = log \o
              <<LogRecord("INFO", "trimming bad dates", -1),
                LogRecord("INFO", "There are N indices to remove",
                          Len(bad_date_indices))>>
    /\ data' = trim_indices(data, bad_date_indices)
    /\ pc' = "transform_locations"
    /\ UNCHANGED <<lines, bad_date_indices, bad_location_indices, indices>>

\* lines 43-44
TransformLocations ==
    /\ pc = "transform_locations"
    /\ LET r == transform_locations(data)
       IN  /\ data' = r.data
           /\ bad_location_indices' = r.bad_indices
    /\ log' = Append(log, LogRecord("INFO", "transforming locations", -1))
    /\ pc' = "trim_locations"
    /\ UNCHANGED <<lines, bad_date_indices, indices>>

\* lines 45-49
TrimLocations ==
    /\ pc = "trim_locations"
    /\ log' = log \o
              <<LogRecord("INFO", "trimming bad locations", -1),
                LogRecord("INFO", "There are N indices to remove",
                          Len(bad_location_indices))>>
              \o <<LogRecord("INFO", "Done with cleanup", -1)>>
    /\ data' = trim_indices(data, bad_location_indices)
    /\ pc' = "graph"
    /\ UNCHANGED <<lines, bad_date_indices, bad_location_indices, indices>>

\* lines 52-55: the plots read the table and change nothing
Graph ==
    /\ pc = "graph"
    /\ pc' = "done"
    /\ UNCHANGED <<lines, data, bad_date_indices, bad_location_indices, log,
                   indices>>

Next ==
    \/ LoadData
    \/ TransformDates
    \/ TrimDates
    \/ TransformLocations
    \/ TrimLocations
    \/ Graph

Spec == Init /\ [][Next]_vars

-----------------------------------------------------------------------------
(* trim_indices applied on its own to a loaded table and an index list.    *)

InitTrim ==
    /\ pc = "trim_indices"
    /\ lines \in FilesOver(TrimLines)
    /\ data = load_data(lines).data
    /\ indices \in IndexLists(Len(lines))
    /\ bad_date_indices = <<>>
    /\ bad_location_indices = <<>>
    /\ log = <<>>

ApplyTrim ==
    /\ pc = "trim_indices"
    /\ data' = trim_indices(data, indices)
    /\ pc' = "trimmed"
    /\ UNCHANGED <<lines, bad_date_indices, bad_location_indices, log, indices>>

NextTrim == ApplyTrim

SpecTrim == InitTrim /\ [][NextTrim]_vars

-----------------------------------------------------------------------------
(* What the claims are stated in.                                          *)

\* the tab-separated parts of a raw line
Parts(line) == split(line, TAB)

\* every line of the file has at least six tab-separated parts
AllLinesComplete ==
    \A k \in 1..Len(lines) : Len(Parts(lines[k])) >= Len(column_names)

\* the 1-based number of the first line with fewer than six parts, 0 if none
FirstShortLine ==
    IF AllLinesComplete THEN 0
    ELSE CHOOSE k \in 1..Len(lines) :
             /\ Len(Parts(lines[k])) < Len(column_names)
             /\ \A h \in 1..(k - 1) : Len(Parts(lines[h])) >= Len(column_names)

\* load_data logged a structural parse error
LoadFailed == \E j \in 1..Len(log) : log[j].msg = "Found error on line number"

\* the table load_data built from the file
Loaded == load_data(lines).data

\* the values of a table, without the lines they were read from
Vals(d) == [key \in DOMAIN d |-> [j \in 1..Len(d[key]) |-> d[key][j].val]]

\* all columns have one length, and row i of every column is from one line
Aligned(d) ==
    \A c1, c2 \in Columns :
        /\ Len(d[c1]) = Len(d[c2])
        /\ \A i \in 1..Len(d[c1]) : d[c1][i].line = d[c2][i].line

\* the elements of rows at the positions S, in ascending order of position
RECURSIVE InOrder(_, _)
InOrder(rows, S) ==
    IF S = {} THEN <<>>
    ELSE LET p == CHOOSE x \in S : \A y \in S : x <= y
         IN  <<rows[p]>> \o InOrder(rows, S \ {p})

\* the elements of a Python list, as a set
Elements(l) == {l[j] : j \in 1..Len(l)}

\* the stages main has left behind it once transform_dates has run
AfterTransformDates ==
    {"trim_dates", "transform_locations", "trim_locations", "graph", "done"}

-----------------------------------------------------------------------------
(* The claims.                                                             *)

\* C1: for a file whose lines all have at least six parts, after every
\* step of main (load_data, transform_dates, the date trim, transform_
\* locations, the location trim) the six columns have the same length and
\* row i of every column is from the same input line, also when some dates
\* do not parse.
C1_TableStaysAligned ==
    (AllLinesComplete /\ pc # "load_data") => Aligned(data)

\* C2: when load_data meets a line with fewer than six parts at line k, the
\* table it returns holds exactly the rows of a prefix of the file (the
\* lines before k, or none), all six columns have the same length, and no
\* column holds a value of line k or of a later line.
C2_PartialTableIsPrefix ==
    (pc = "transform_dates" /\ LoadFailed) =>
        /\ \A c1, c2 \in Columns : Len(data[c1]) = Len(data[c2])
        /\ \A c \in Columns :
               /\ Len(data[c]) \in {0, FirstShortLine - 1}
               /\ \A i \in 1..Len(data[c]) : data[c][i].line = i

\* C3 as stated: a structural parse error in load_data aborts the run, so
\* that after it neither transform_dates, transform_locations nor a
\* trim_indices pass has ever been executed.
C3_ParseErrorAborts == LoadFailed => pc \notin AfterTransformDates

\* C3 as amended: main is the strict sequence load_data, transform_dates,
\* trim, transform_locations, trim, graphs, done; a structural parse error
\* ends the loading (no line after the failing one reaches the table) but
\* does not abort the run: transform_dates is the step after load_data
\* whether or not the load failed, and the later stages follow.
C3_ParseErrorDoesNotAbort ==
    [][/\ pc = "load_data" => pc' = "transform_dates"
       /\ pc = "transform_dates" => pc' = "trim_dates"
       /\ pc = "trim_dates" => pc' = "transform_locations"
       /\ pc = "transform_locations" => pc' = "trim_locations"
       /\ pc = "trim_locations" => pc' = "graph"
       /\ pc = "graph" => pc' = "done"
       /\ pc # "done"
       /\ FirstShortLine > 0 =>
              /\ LoadFailed'
              /\ \A c \in Columns : \A i \in 1..Len(data'[c]) :
                     data'[c][i].line <= FirstShortLine]_vars

\* C3 witness: the run reached its end after a structural parse error on a
\* line that is not the last one, with rows of the partial table kept
C3_Witness ==
    /\ pc = "done"
    /\ LoadFailed
    /\ FirstShortLine > 1
    /\ FirstShortLine < Len(lines)
    /\ Len(data["short_description"]) > 0

\* C4: when line k (counted from 1) is the first line with fewer than six
\* parts, load_data logs exactly one 'Found error on line number' record
\* and the number in it is k.
C4_ErrorNamesLineOneBased ==
    (pc = "transform_dates" /\ FirstShortLine > 0) =>
        LET found == SelectSeq(log, LAMBDA r :
                                   r.msg = "Found error on line number")
        IN  /\ Len(found) = 1
            /\ found[1].n = FirstShortLine

\* the table the claim C5 compares with: dates and locations flagged row by
\* row on the table as loaded, the union of the flagged rows removed in one
\* pass, every row kept with its own years, location and other fields
SinglePass(d) ==
    LET n       == Len(d[LOCATION])
        flagged == {i \in 1..n :
                       \/ ~strptime_ok(d[OCCURRED][i].val)
                       \/ ~strptime_ok(d[REPORTED][i].val)
                       \/ location_flagged(d[LOCATION][i].val)}
        cleaned == [key \in Columns |->
                       [i \in 1..n |->
                           IF key \in {OCCURRED, REPORTED}
                           THEN prefix(d[key][i].val, 4)
                           ELSE IF key = LOCATION
                           THEN location_value(d[key][i].val)
                           ELSE d[key][i].val]]
    IN  [key \in Columns |-> InOrder(cleaned[key], (1..n) \ flagged)]

\* C5: for a table that loaded without error, the final table of main's two
\* stages (flag dates, trim, flag locations on the result, trim) is
\* identical in every column to the table of the single pass over the
\* union of the flagged rows.
C5_TwoStagesEqualSinglePass ==
    (pc = "done" /\ AllLinesComplete) => Vals(data) = SinglePass(Loaded)

\* C6: for trim_indices applied to a table and a list I of row indices of
\* the table (unsorted, with repeats), for every column: the length of the
\* output is the length of the input minus the number of distinct indices
\* of I, the output is the input without the elements at the indices of I,
\* in their original order, and a repeated index changes nothing (the
\* output is fixed by the set of the indices).
C6_TrimRemovesExactlyTheRows ==
    pc = "trimmed" =>
        \A key \in Columns :
            LET rows == Loaded[key]
                I    == Elements(indices)
            IN  /\ Len(data[key]) = Len(rows) - Cardinality(I)
                /\ data[key] =
                       InOrder(rows, {p \in 1..Len(rows) : (p - 1) \notin I})

\* C6 witness: an unsorted list with a repeated index was applied, and rows
\* were removed and rows were kept
C6_Witness ==
    /\ pc = "trimmed"
    /\ Len(indices) = 3
    /\ indices[1] > indices[2]
    /\ indices[1] = indices[3]
    /\ Len(data[LOCATION]) = 1
    /\ Len(lines) = 3

\* C7: for a date column given to column_to_date, row i is in the invalid
\* indices exactly when its string does not parse; a row that does not
\* parse is not dropped, so the transformed column has one entry per input
\* row; and for every row i that parses, position i of the transformed
\* column holds the leading four characters of that row's string.
C7_DateColumnKeepsEveryRow ==
    pc = "trim_dates" =>
        /\ \A i \in 1..Len(Loaded[OCCURRED]) :
               in_list(i - 1, column_to_date(Loaded[OCCURRED]).bad_indices)
                   <=> ~strptime_ok(Loaded[OCCURRED][i].val)
        /\ \A key \in {OCCURRED, REPORTED} :
               /\ Len(data[key]) = Len(Loaded[key])
               /\ \A i \in 1..Len(Loaded[key]) :
                      strptime_ok(Loaded[key][i].val) =>
                          data[key][i].val = SubSeq(Loaded[key][i].val, 1, 4)

\* C8: the invalid indices transform_dates returns are the union of those
\* of date_occurred and of date_reported with duplicates collapsed: no
\* index appears twice, so the count main logs as 'indices to remove' for
\* the dates is the number of rows the date trim removes.
C8_DateIndicesHaveNoDuplicates ==
    /\ (pc = "trim_dates" /\ AllLinesComplete) =>
           \A i, j \in 1..Len(bad_date_indices) :
               i # j => bad_date_indices[i] # bad_date_indices[j]
    /\ (pc = "transform_locations" /\ AllLinesComplete) =>
           log[Len(log)].n = Len(Loaded[LOCATION]) - Len(data[LOCATION])

\* the raw location string of input line k
RawLocation(k) == Parts(lines[k])[3]

\* C9: transform_locations flags index i exactly when the location split
\* on ',' has not exactly two parts or its second part, uppercased and
\* trimmed, is none of the 50 state abbreviations; an unflagged row gets
\* the record of city and state built from the raw parts; and after the
\* location trim no flagged row remains in any column of the final table.
C9_NoFlaggedLocationSurvives ==
    /\ (pc = "trim_locations" /\ AllLinesComplete) =>
           \A i \in 1..Len(data[LOCATION]) :
               LET raw   == RawLocation(data[LOCATION][i].line)
                   parts == split(raw, COMMA)
                   bad   == \/ Len(parts) # 2
                            \/ strip(upper(parts[2])) \notin Elements(states)
               IN  /\ in_list(i - 1, bad_location_indices) <=> bad
                   /\ ~bad => data[LOCATION][i].val =
                                  [city |-> parts[1], state |-> parts[2]]
    /\ (pc = "done" /\ AllLinesComplete) =>
           \A key \in Columns : \A i \in 1..Len(data[key]) :
               ~location_flagged(RawLocation(data[key][i].line))

\* the two blanks that separate the parts of a repaired long description
RECURSIVE TwoSpaced(_)
TwoSpaced(parts) ==
    IF Len(parts) = 0 THEN <<>>
    ELSE IF Len(parts) = 1 THEN parts[1]
    ELSE TwoSpaced(SubSeq(parts, 1, Len(parts) - 1))
         \o <<" ", " ">> \o parts[Len(parts)]

\* the value the claim C10 gives column j (1..6) for the parts of a line
ExpectedValue(parts, j) ==
    IF j < 6 \/ Len(parts) = 6 THEN parts[j]
    ELSE LET tail    == [m \in 1..(Len(parts) - 5) |-> strip(parts[m + 5])]
             nonvoid == SelectSeq(tail, LAMBDA x : x # <<>>)
         IN  TwoSpaced(nonvoid)

\* the number of lines load_data went through without error
CompleteLines == IF FirstShortLine = 0 THEN Len(lines) ELSE FirstShortLine - 1

\* C10: for every input line with six or more parts that load_data goes
\* through, it appends exactly one value to each of the six columns: the
\* first five parts go to the first five columns, long_description gets
\* the sixth part unchanged when there are six parts and otherwise the
\* parts from the sixth on, trimmed, the empty ones dropped, joined by two
\* blanks; rows appended before are not overwritten.
C10_OneValuePerColumnPerLine ==
    pc = "transform_dates" =>
        \A j \in 1..6 :
            LET col == data[column_names[j]]
            IN  /\ Len(col) >= CompleteLines
                /\ FirstShortLine = 0 => Len(col) = Len(lines)
                /\ \A k \in 1..CompleteLines :
                       col[k] = [line |-> k,
                                 val  |-> ExpectedValue(Parts(lines[k]), j)]

\* C10 witness: a line with blank and empty parts in its long description
\* was loaded after another line, and the repaired value of the line of the
\* claim's example is the one the claim gives
C10_Witness ==
    /\ pc = "transform_dates"
    /\ Len(lines) = 3
    /\ lines[1] = LineThreeParts
    /\ lines[2] = LineTabs
    /\ lines[3] = LineGood
    /\ Len(Parts(lines[2])) = 9
    /\ data["long_description"][2].val = <<"a", " ", " ", "b">>
    /\ data["long_description"][3].val = Bright \o <<NL>>
    /\ data["long_description"][1].val =
           LightsInTheSky \o <<" ", " ">> \o VeryBright \o <<" ", " ">>
           \o MovingSlowly

====
